---- MODULE Spec2Model ----
(***************************************************************************)
(* A model of RET_CLIP/clip/model.py: the dual-encoder CLIP class          *)
(* (encode_image, encode_text, forward, get_similarity) and the weight     *)
(* reconciliation utilities (restore_model, convert_state_dict,            *)
(* resize_pos_embed).                                                      *)
(*                                                                         *)
(* Tensors are modelled by their shape and a symbolic value: the string    *)
(* val names the expression that produced the tensor, so that two tensors  *)
(* are equal exactly when they were computed the same way from the same    *)
(* inputs.  Python exceptions are outcomes of kind "raise".  Every method  *)
(* is an operator that yields its outcome together with the log of the     *)
(* sub-module calls it made, in call order.                                *)
(***************************************************************************)
EXTENDS Integers, Sequences, FiniteSets, TLC

VARIABLES
    visual_kind,        \* type of CLIP.visual: "ModifiedResNet" or "VisualTransformer"
    embed_dim,          \* CLIP.__init__ embed_dim
    vision_width,       \* CLIP.__init__ vision_width
    grid,               \* image_resolution // vision_patch_size (VisualTransformer.grid_size[0])
    text_hidden_size,   \* CLIP.__init__ text_hidden_size
    call,               \* the last method call made on the CLIP object and its arguments
    outcome,            \* what that call produced: a returned value or a raised exception
    trace,              \* the sub-module calls the method made, in order
    state_dict,         \* the mapping convert_state_dict is applied to (mutated in place)
    state_dict0,        \* that mapping as it was before the first conversion
    nconv,              \* how many times convert_state_dict has been applied to it
    conv_exc,           \* the exception the last conversion raised, "" when it returned
    clip_state_dict,    \* restore_model's argument: [is_none, items]
    bert_state_dict,    \* restore_model's argument: [is_none, items]
    use_flash_attention,\* restore_model's argument
    merged_state_dict,  \* restore_model's local mapping
    model,              \* the target model: [training, params]
    pc,                 \* the statement of restore_model to run next
    steps,              \* the operations performed on the model, in order
    restore_exc,        \* the exception the last of them raised, "" for none
    seq_in,             \* the batch x of token sequences given to the masking step
    seq_ratio,          \* the mask_ratio given with it, in percent
    seq_out,            \* the batch of token sequences the step produced
    seq_op              \* the step taken: "none", "random_masking" or "forward"

clip_vars == <<visual_kind, embed_dim, vision_width, grid, text_hidden_size, call, outcome, trace>>

convert_vars == <<state_dict, state_dict0, nconv, conv_exc>>

restore_vars == <<clip_state_dict, bert_state_dict, use_flash_attention, merged_state_dict,
                  model, pc, steps, restore_exc>>

mask_vars == <<seq_in, seq_ratio, seq_out, seq_op>>

vars == <<clip_vars, convert_vars, restore_vars, mask_vars>>

(***************************************************************************)
(* Bounds of the model.                                                    *)
(***************************************************************************)
MaxBatch == 2
MaxEmbedDim == 2
MaxVisionWidth == 4
MaxGrid == 2
MaxHidden == 2
MaxLayers == 3
MaxBlocks == 1
MaxRows == 2
MaxConversions == 2
MaxPosRows == 5
MaxStoredRows == 9
MaxWidth == 2
MaxSeqLen == 4

\* The variables of the utilities while only the CLIP object is exercised, and
\* the other way round.
NoneDict == [is_none |-> TRUE, items |-> <<>>]

IdleConvert == state_dict = <<>> /\ state_dict0 = <<>> /\ nconv = 0 /\ conv_exc = ""

IdleRestore ==
    /\ clip_state_dict = NoneDict /\ bert_state_dict = NoneDict
    /\ use_flash_attention = FALSE
    /\ merged_state_dict = <<>>
    /\ model = [training |-> TRUE, params |-> <<>>]
    /\ pc = "idle" /\ steps = <<>> /\ restore_exc = ""

IdleMask == seq_in = <<>> /\ seq_ratio = 0 /\ seq_out = <<>> /\ seq_op = "none"

\* mask_ratio is a float in the source; the model carries it in percent.
MaskRatios == {0, 50}

(***************************************************************************)
(* Tensors, None, outcomes.                                                *)
(***************************************************************************)
Tensor(shape, val) == [shape |-> shape, val |-> val]

None == Tensor(<<>>, "None")

IsNone(x) == x = None

\* A returned bare value (tuple = FALSE, the value is value[1]) or a returned
\* Python tuple (tuple = TRUE, the elements are value[1..]); a raised exception.
Returned(value) == [kind |-> "return", exc |-> "", tuple |-> FALSE, value |-> <<value>>]

ReturnedTuple(values) == [kind |-> "return", exc |-> "", tuple |-> TRUE, value |-> values]

Raised(exc) == [kind |-> "raise", exc |-> exc, tuple |-> FALSE, value |-> <<>>]

IsRaise(r) == r.out.kind = "raise"

R(out, log) == [out |-> out, log |-> log]

Last(s) == s[Len(s)]

\* torch.nn.Linear(in_features, out_features) applied to x: the last dimension
\* of x must be in_features, else the matrix product raises RuntimeError.
Linear(name, in_features, out_features, x) ==
    IF Len(x.shape) >= 1 /\ Last(x.shape) = in_features
    THEN R(Returned(Tensor(SubSeq(x.shape, 1, Len(x.shape) - 1) \o <<out_features>>,
                           name \o "(" \o x.val \o ")")),
           <<name>>)
    ELSE R(Raised("RuntimeError"), <<name>>)

\* torch.cat((a, b), dim=1): every dimension but dim 1 must agree.
cat_dim1(a, b) ==
    IF /\ Len(a.shape) = Len(b.shape)
       /\ Len(a.shape) >= 2
       /\ \A d \in 1..Len(a.shape) : d # 2 => a.shape[d] = b.shape[d]
    THEN Returned(Tensor([a.shape EXCEPT ![2] = a.shape[2] + b.shape[2]],
                         "cat(" \o a.val \o "," \o b.val \o ")"))
    ELSE Raised("RuntimeError")

\* x / x.norm(dim=-1, keepdim=True)
normalize(x) == Tensor(x.shape, "normalize(" \o x.val \o ")")

(***************************************************************************)
(* The image backbones.                                                    *)
(***************************************************************************)
\* ModifiedResNet.forward: stem, four stages, attention pooling to output_dim.
ModifiedResNet_forward(x) ==
    Tensor(<<x.shape[1], embed_dim>>, "visual(" \o x.val \o ")")

\* len_keep = int((L - 1) * (1 - mask_ratio)), mask_ratio in percent
len_keep(L, mask_ratio) == ((L - 1) * (100 - mask_ratio)) \div 100

\* VisualTransformer.random_masking: the class token and len_keep patch tokens stay.
random_masking(x, mask_ratio) ==
    Tensor(<<x.shape[1], 1 + len_keep(x.shape[2], mask_ratio), x.shape[3]>>, x.val)

\* VisualTransformer.forward
VisualTransformer_forward(x, mask_ratio, return_all_features) ==
    LET tokens == Tensor(<<x.shape[1], grid * grid + 1, vision_width>>, x.val)
        kept   == IF mask_ratio # 0 THEN random_masking(tokens, mask_ratio) ELSE tokens
        tag    == "mask_ratio=" \o ToString(mask_ratio)
    IN  IF return_all_features
        THEN Tensor(kept.shape, "visual(" \o x.val \o "," \o tag \o ",all)")
        ELSE Tensor(<<x.shape[1], embed_dim>>, "visual(" \o x.val \o "," \o tag \o ")")

(***************************************************************************)
(* Masking at the level of tokens.  A batch is a sequence of rows, a row   *)
(* the sequence of its L tokens, the class token first; the token at the   *)
(* source's index j is row[j + 1].  torch.rand yields any noise, so        *)
(* torch.argsort(noise, dim=1) is, for each row, any permutation of        *)
(* 0..L-2.                                                                 *)
(***************************************************************************)
\* Mutation of ids_shuffle: the sorted positions are not shifted by one.
ids_shuffle_unshifted(argsort_noise) == argsort_noise

\* ids_shuffle = torch.argsort(noise, dim=1) + torch.ones(N, L - 1, dtype=int),
\* for one row
ids_shuffle(argsort_noise) == [i \in DOMAIN argsort_noise |-> argsort_noise[i] + 1]

\* torch.gather(x, dim=1, index), for one row
gather(row, index) == [j \in DOMAIN index |-> row[index[j] + 1]]

\* VisualTransformer.random_masking on the tokens of x
random_masking_tokens(x, mask_ratio, argsort_noise) ==
    [n \in DOMAIN x |->
        LET L        == Len(x[n])
            ids_keep == SubSeq(ids_shuffle(argsort_noise[n]), 1, len_keep(L, mask_ratio))
            x_masked == gather(x[n], ids_keep)
            x0       == <<x[n][1]>>
        IN  x0 \o x_masked]

\* VisualTransformer.forward, "if mask_ratio != 0: x = self.random_masking(x,
\* mask_ratio)": the sequence handed on to ln_pre and the transformer.
masked_sequence(x, mask_ratio, argsort_noise) ==
    IF mask_ratio # 0 THEN random_masking_tokens(x, mask_ratio, argsort_noise) ELSE x

VisualEvent(x) == "visual(" \o x.val \o ")"

(***************************************************************************)
(* class CLIP                                                              *)
(***************************************************************************)
\* The sub-modules CLIP.__init__ registers on self.
CLIPAttributes ==
    {"visual", "bert", "text_projection", "text_projection_left", "text_projection_right",
     "logit_scale", "logit_scale_left", "logit_scale_right",
     "global_feature_mapping", "left_feature_mapping", "right_feature_mapping", "tokenizer"}

\* self.<name>(x) for a feature mapping: nn.Module.__getattr__ raises
\* AttributeError for a name __init__ never registered.
feature_mapping(name, in_features, x) ==
    IF name \notin CLIPAttributes
    THEN R(Raised("AttributeError"), <<>>)
    ELSE Linear(name, in_features, embed_dim, x)

\* The return statement of encode_image's two-image branches: the tuple
\* (global_feature_mapping(vision_feature), <left_name>(left_feature),
\* <right_name>(right_feature)), its elements evaluated left to right.
map_features(left_feature, right_feature, left_name, right_name, log) ==
    LET vision_feature == cat_dim1(left_feature, right_feature)
        g == feature_mapping("global_feature_mapping", 2 * embed_dim, vision_feature.value[1])
        l == feature_mapping(left_name, embed_dim, left_feature)
        r == feature_mapping(right_name, embed_dim, right_feature)
    IN  IF vision_feature.kind = "raise" THEN R(vision_feature, log)
        ELSE IF IsRaise(g) THEN R(g.out, log \o g.log)
        ELSE IF IsRaise(l) THEN R(l.out, log \o g.log \o l.log)
        ELSE IF IsRaise(r) THEN R(r.out, log \o g.log \o l.log \o r.log)
        ELSE R(ReturnedTuple(<<g.out.value[1], l.out.value[1], r.out.value[1]>>),
               log \o g.log \o l.log \o r.log)

\* Mutation of encode_one_side: the single image's features are passed
\* through a feature mapping before they are returned.
encode_one_side_mapped(img, mask_ratio) ==
    LET x == IF visual_kind = "ModifiedResNet" THEN ModifiedResNet_forward(img)
             ELSE VisualTransformer_forward(img, mask_ratio, TRUE)
        m == feature_mapping("left_feature_mapping", Last(x.shape), x)
    IN  IF IsNone(img) THEN R(Raised("AttributeError"), <<>>)
        ELSE R(m.out, <<VisualEvent(img)>> \o m.log)

\* Mutation of encode_one_side: an absent image is handed to the backbone,
\* which hands it back.
encode_one_side_unguarded(img, mask_ratio) ==
    IF IsNone(img) THEN R(Returned(None), <<VisualEvent(img)>>)
    ELSE IF visual_kind = "ModifiedResNet"
    THEN R(Returned(ModifiedResNet_forward(img)), <<VisualEvent(img)>>)
    ELSE R(Returned(VisualTransformer_forward(img, mask_ratio, TRUE)), <<VisualEvent(img)>>)

\* encode_image's branch for a single image (the code repeats it for img_l
\* and for img_r): the backbone's output is returned as it is.
encode_one_side(img, mask_ratio) ==
    IF IsNone(img) THEN R(Raised("AttributeError"), <<>>)   \* None.type(...)
    ELSE IF visual_kind = "ModifiedResNet"
    THEN R(Returned(ModifiedResNet_forward(img)), <<VisualEvent(img)>>)
    ELSE R(Returned(VisualTransformer_forward(img, mask_ratio, TRUE)), <<VisualEvent(img)>>)

\* CLIP.encode_image.  return_all_features is accepted and never read: the
\* transformer backbone is always called with return_all_features=True.
encode_image(img_l, img_r, mask_ratio, return_all_features) ==
    IF IsNone(img_r) THEN encode_one_side(img_l, mask_ratio)
    ELSE IF IsNone(img_l) THEN encode_one_side(img_r, mask_ratio)
    ELSE IF visual_kind = "ModifiedResNet" THEN
        map_features(ModifiedResNet_forward(img_l), ModifiedResNet_forward(img_r),
                     "single_feature_mapping", "single_feature_mapping",
                     <<VisualEvent(img_l), VisualEvent(img_r)>>)
    ELSE
        map_features(VisualTransformer_forward(img_l, mask_ratio, TRUE),
                     VisualTransformer_forward(img_r, mask_ratio, TRUE),
                     "left_feature_mapping", "right_feature_mapping",
                     <<VisualEvent(img_l), VisualEvent(img_r)>>)

\* One text head: Sequential(Linear(hidden, hidden), ReLU, Linear(hidden, embed_dim)).
text_head(name, x) == Linear(name, text_hidden_size, embed_dim, x)

\* CLIP.encode_text
encode_text(text) ==
    IF IsNone(text) THEN R(Raised("AttributeError"), <<>>)        \* None.ne(...)
    ELSE
        LET x   == Tensor(<<text.shape[1], text.shape[2], text_hidden_size>>,
                          "bert(" \o text.val \o ")")
            cls == Tensor(<<x.shape[1], x.shape[3]>>, x.val \o "[:,0,:]")
            t   == text_head("text_projection", cls)
            tl  == text_head("text_projection_left", cls)
            tr  == text_head("text_projection_right", cls)
        IN  R(ReturnedTuple(<<t.out.value[1], tl.out.value[1], tr.out.value[1]>>),
              <<"bert(" \o text.val \o ")">> \o t.log \o tl.log \o tr.log)

\* Python's  a, b, ... = value  with n targets.  A tuple must have n elements;
\* a tensor is iterated along its first dimension, which must have size n.
unpack(out, n) ==
    IF out.tuple
    THEN IF Len(out.value) = n THEN out ELSE Raised("ValueError")
    ELSE LET x == out.value[1]
         IN  IF Len(x.shape) = 0 THEN Raised("TypeError")
             ELSE IF x.shape[1] # n THEN Raised("ValueError")
             ELSE ReturnedTuple([i \in 1..n |->
                      Tensor(Tail(x.shape), x.val \o "[" \o ToString(i - 1) \o "]")])

logit_scale_exp(name) == Tensor(<<>>, "exp(" \o name \o ")")

AssertionError(msg) == [Raised("AssertionError") EXCEPT !.exc = "AssertionError: " \o msg]

\* forward's first assertion: not all three inputs are None.
some_input_given(img_l, img_r, text) == ~IsNone(img_l) \/ ~IsNone(img_r) \/ ~IsNone(text)

\* Mutation of both_images_given: "or" where the assertion says "and".
both_images_given_either(img_l, img_r) == ~IsNone(img_l) \/ ~IsNone(img_r)

\* forward's second assertion, reached with text present: both images are given.
both_images_given(img_l, img_r) == ~IsNone(img_l) /\ ~IsNone(img_r)

\* Mutation of image_only_mask_ratio: the caller's mask_ratio is passed on.
image_only_mask_ratio_passed(mask_ratio) == mask_ratio

\* The mask_ratio encode_image runs with in forward's image-only branches:
\* the calls give none, so it is encode_image's default, whatever forward's
\* own mask_ratio.
image_only_mask_ratio(mask_ratio) == 0

\* CLIP.forward
forward(img_l, img_r, text, mask_ratio) ==
    IF ~some_input_given(img_l, img_r, text)
    THEN R(AssertionError("text and images cannot all be None!"), <<>>)
    ELSE IF IsNone(img_l) /\ IsNone(img_r) THEN encode_text(text)
    ELSE IF IsNone(text) /\ IsNone(img_r)
    THEN encode_image(img_l, None, image_only_mask_ratio(mask_ratio), FALSE)
    ELSE IF IsNone(text) /\ IsNone(img_l)
    THEN encode_image(None, img_r, image_only_mask_ratio(mask_ratio), FALSE)
    ELSE IF IsNone(text)
    THEN encode_image(img_l, img_r, image_only_mask_ratio(mask_ratio), FALSE)
    ELSE IF ~both_images_given(img_l, img_r)
    THEN R(AssertionError("both images is required!"), <<>>)
    ELSE
        LET ei == encode_image(img_l, img_r, mask_ratio, FALSE)
            iu == unpack(ei.out, 3)
            et == encode_text(text)
            tu == unpack(et.out, 3)
        IN  IF IsRaise(ei) THEN ei
            ELSE IF iu.kind = "raise" THEN R(iu, ei.log)
            ELSE IF IsRaise(et) THEN R(et.out, ei.log \o et.log)
            ELSE IF tu.kind = "raise" THEN R(tu, ei.log \o et.log)
            ELSE R(ReturnedTuple(<<normalize(iu.value[1]),
                                   normalize(tu.value[1]),
                                   normalize(tu.value[2]),
                                   normalize(tu.value[3]),
                                   normalize(iu.value[2]),
                                   normalize(iu.value[3]),
                                   logit_scale_exp("logit_scale"),
                                   logit_scale_exp("logit_scale_left"),
                                   logit_scale_exp("logit_scale_right")>>),
                   ei.log \o et.log)
\* x / x.norm(dim=1, keepdim=True) on the object a name is bound to: a tuple
\* has no norm attribute, and dim=1 needs a tensor of at least two dimensions.
normalize_dim1(o) ==
    IF o.tuple THEN Raised("AttributeError")
    ELSE IF Len(o.value[1].shape) < 2 THEN Raised("IndexError")
    ELSE Returned(normalize(o.value[1]))

\* logit_scale * image_features @ text_features.t()
scaled_logits(image_features, text_features) ==
    IF /\ Len(text_features.shape) = 2
       /\ Len(image_features.shape) = 2
       /\ image_features.shape[2] = text_features.shape[2]
    THEN Returned(Tensor(<<image_features.shape[1], text_features.shape[1]>>,
                         "exp(logit_scale)*" \o image_features.val \o "@"
                             \o text_features.val \o ".t()"))
    ELSE Raised("RuntimeError")

transpose(x) == Tensor(<<x.shape[2], x.shape[1]>>, x.val \o ".t()")

\* CLIP.get_similarity
get_similarity(img_l, img_r, text) ==
    LET ei == encode_image(img_l, img_r, 0, FALSE)
        iu == unpack(ei.out, 2)
        et == encode_text(text)
        image_features == normalize_dim1(Returned(iu.value[1]))
        text_features  == normalize_dim1(et.out)
        logits_per_image == scaled_logits(image_features.value[1], text_features.value[1])
    IN  IF IsRaise(ei) THEN ei
        ELSE IF iu.kind = "raise" THEN R(iu, ei.log)
        ELSE IF IsRaise(et) THEN R(et.out, ei.log \o et.log)
        ELSE IF image_features.kind = "raise" THEN R(image_features, ei.log \o et.log)
        ELSE IF text_features.kind = "raise" THEN R(text_features, ei.log \o et.log)
        ELSE IF logits_per_image.kind = "raise" THEN R(logits_per_image, ei.log \o et.log)
        ELSE R(ReturnedTuple(<<logits_per_image.value[1],
                               transpose(logits_per_image.value[1])>>),
               ei.log \o et.log)

(***************************************************************************)
(* The CLIP object under calls.                                            *)
(***************************************************************************)
\* An image batch (N, 3, H, W); the resolution is counted in patches.
Img(name, n) == Tensor(<<n, 3, grid, grid>>, name)

\* A token batch (N, seq_len).
Text(n) == Tensor(<<n, 2>>, "text")

Call(op, img_l, img_r, text, mask_ratio, return_all_features) ==
    [op |-> op, img_l |-> img_l, img_r |-> img_r, text |-> text,
     mask_ratio |-> mask_ratio, return_all_features |-> return_all_features]

\* CLIP.__init__: the backbone is a ModifiedResNet when vision_layers is a
\* tuple or list, a VisualTransformer otherwise.
InitCLIP ==
    /\ visual_kind \in {"ModifiedResNet", "VisualTransformer"}
    /\ embed_dim \in 1..MaxEmbedDim
    /\ vision_width \in 1..MaxVisionWidth
    /\ grid \in 1..MaxGrid
    /\ text_hidden_size \in 1..MaxHidden
    /\ call = Call("__init__", None, None, None, 0, FALSE)
    /\ outcome = Returned(None)
    /\ trace = <<>>
    /\ IdleConvert
    /\ IdleRestore
    /\ IdleMask

Forward ==
    \E n \in 1..MaxBatch, l \in BOOLEAN, r \in BOOLEAN, t \in BOOLEAN, m \in MaskRatios :
        LET img_l == IF l THEN Img("img_l", n) ELSE None
            img_r == IF r THEN Img("img_r", n) ELSE None
            text  == IF t THEN Text(n) ELSE None
            res   == forward(img_l, img_r, text, m)
        IN  /\ call' = Call("forward", img_l, img_r, text, m, FALSE)
            /\ outcome' = res.out
            /\ trace' = res.log
            /\ UNCHANGED <<visual_kind, embed_dim, vision_width, grid, text_hidden_size>>
            /\ UNCHANGED <<convert_vars, restore_vars, mask_vars>>

EncodeImage ==
    \E n \in 1..MaxBatch, l \in BOOLEAN, r \in BOOLEAN, m \in MaskRatios, a \in BOOLEAN :
        LET img_l == IF l THEN Img("img_l", n) ELSE None
            img_r == IF r THEN Img("img_r", n) ELSE None
            res   == encode_image(img_l, img_r, m, a)
        IN  /\ call' = Call("encode_image", img_l, img_r, None, m, a)
            /\ outcome' = res.out
            /\ trace' = res.log
            /\ UNCHANGED <<visual_kind, embed_dim, vision_width, grid, text_hidden_size>>
            /\ UNCHANGED <<convert_vars, restore_vars, mask_vars>>

EncodeText ==
    \E n \in 1..MaxBatch :
        LET res == encode_text(Text(n))
        IN  /\ call' = Call("encode_text", None, None, Text(n), 0, FALSE)
            /\ outcome' = res.out
            /\ trace' = res.log
            /\ UNCHANGED <<visual_kind, embed_dim, vision_width, grid, text_hidden_size>>
            /\ UNCHANGED <<convert_vars, restore_vars, mask_vars>>

GetSimilarity ==
    \E n \in 1..MaxBatch, l \in BOOLEAN, r \in BOOLEAN, t \in BOOLEAN :
        LET img_l == IF l THEN Img("img_l", n) ELSE None
            img_r == IF r THEN Img("img_r", n) ELSE None
            text  == IF t THEN Text(n) ELSE None
            res   == get_similarity(img_l, img_r, text)
        IN  /\ call' = Call("get_similarity", img_l, img_r, text, 0, FALSE)
            /\ outcome' = res.out
            /\ trace' = res.log
            /\ UNCHANGED <<visual_kind, embed_dim, vision_width, grid, text_hidden_size>>
            /\ UNCHANGED <<convert_vars, restore_vars, mask_vars>>

NextCLIP == Forward \/ EncodeImage \/ EncodeText \/ GetSimilarity

SpecCLIP == InitCLIP /\ [][NextCLIP]_vars

(***************************************************************************)
(* Python strings and insertion-ordered dicts.                             *)
(***************************************************************************)
\* s.startswith(p)
startswith(s, p) == Len(s) >= Len(p) /\ SubSeq(s, 1, Len(p)) = p

\* p in s
contains(s, p) == \E i \in 1..(Len(s) - Len(p) + 1) : SubSeq(s, i, i + Len(p) - 1) = p

\* s.replace(old, new): every occurrence, left to right, without overlap.
RECURSIVE replace(_, _, _)
replace(s, old, new) ==
    IF ~contains(s, old) THEN s
    ELSE LET i == CHOOSE i \in 1..(Len(s) - Len(old) + 1) :
                      /\ SubSeq(s, i, i + Len(old) - 1) = old
                      /\ \A j \in 1..(i - 1) : SubSeq(s, j, j + Len(old) - 1) # old
         IN  SubSeq(s, 1, i - 1) \o new \o replace(SubSeq(s, i + Len(old), Len(s)), old, new)

\* A dict is the sequence of its items [k, v] in insertion order.
has(d, k) == \E i \in DOMAIN d : d[i].k = k

get(d, k) == d[CHOOSE i \in DOMAIN d : d[i].k = k].v

\* d[k] = v: an existing key keeps its position, a new key goes last.
set(d, k, v) ==
    IF has(d, k)
    THEN [i \in DOMAIN d |-> IF d[i].k = k THEN [k |-> k, v |-> v] ELSE d[i]]
    ELSE Append(d, [k |-> k, v |-> v])

del(d, k) == SelectSeq(d, LAMBDA e : e.k # k)

keys(d) == [i \in DOMAIN d |-> d[i].k]

KeySet(d) == {d[i].k : i \in DOMAIN d}

(***************************************************************************)
(* Stored tensors: the shape and the rows along dimension 0, each row      *)
(* named after the tensor it was created in.                               *)
(***************************************************************************)
Param(shape, data) == [shape |-> shape, data |-> data]

Rows(name, n) == [i \in 1..n |-> name \o "[" \o ToString(i - 1) \o "]"]

\* torch.cat((a, b, c)) along dimension 0
cat0(a, b, c) ==
    IF /\ Len(a.shape) >= 1
       /\ Len(b.shape) = Len(a.shape) /\ Len(c.shape) = Len(a.shape)
       /\ Tail(b.shape) = Tail(a.shape) /\ Tail(c.shape) = Tail(a.shape)
    THEN <<Param(<<a.shape[1] + b.shape[1] + c.shape[1]>> \o Tail(a.shape),
                 a.data \o b.data \o c.data)>>
    ELSE <<>>

\* torch.chunk(t, chunks=3) along dimension 0: pieces of ceil(n/3) rows, the
\* last one shorter, as many as the n rows fill.
chunk3(t) ==
    LET n    == t.shape[1]
        size == (n + 2) \div 3
        cnt  == (n + size - 1) \div size
    IN  [i \in 1..cnt |->
            LET lo == (i - 1) * size + 1
                hi == IF i * size < n THEN i * size ELSE n
            IN  Param(<<hi - lo + 1>> \o Tail(t.shape), SubSeq(t.data, lo, hi))]

(***************************************************************************)
(* convert_state_dict.  A run is the mapping together with the exception   *)
(* raised so far ("" for none); a statement does nothing once one is       *)
(* raised, and the mapping keeps what was done to it before.               *)
(***************************************************************************)
Run(sd, exc) == [sd |-> sd, exc |-> exc]

\* state_dict[to] = state_dict.pop(from)
move(st, to, from) ==
    IF st.exc # "" THEN st
    ELSE IF ~has(st.sd, from) THEN Run(st.sd, "KeyError")
    ELSE Run(set(del(st.sd, from), to, get(st.sd, from)), "")

\* Mutation of fuse: the three tensors are read and left in the mapping.
fuse_without_pop(st, to, q, k, v) ==
    IF st.exc # "" THEN st
    ELSE IF ~has(st.sd, q) \/ ~has(st.sd, k) \/ ~has(st.sd, v) THEN Run(st.sd, "KeyError")
    ELSE LET fused == cat0(get(st.sd, q), get(st.sd, k), get(st.sd, v))
         IN  IF fused = <<>> THEN Run(st.sd, "RuntimeError")
             ELSE Run(set(st.sd, to, fused[1]), "")

\* state_dict[to] = torch.cat((state_dict.pop(q), state_dict.pop(k), state_dict.pop(v)))
fuse(st, to, q, k, v) ==
    IF st.exc # "" THEN st
    ELSE IF ~has(st.sd, q) THEN Run(st.sd, "KeyError")
    ELSE IF ~has(st.sd, k) THEN Run(del(st.sd, q), "KeyError")
    ELSE IF ~has(st.sd, v) THEN Run(del(del(st.sd, q), k), "KeyError")
    ELSE LET popped == del(del(del(st.sd, q), k), v)
             fused  == cat0(get(st.sd, q), get(st.sd, k), get(st.sd, v))
         IN  IF fused = <<>> THEN Run(popped, "RuntimeError")
             ELSE Run(set(popped, to, fused[1]), "")

\* state_dict[q], state_dict[k], state_dict[v] = torch.chunk(state_dict.pop(from), chunks=3)
split(st, from, q, k, v) ==
    IF st.exc # "" THEN st
    ELSE IF ~has(st.sd, from) THEN Run(st.sd, "KeyError")
    ELSE LET popped == del(st.sd, from)
             parts  == chunk3(get(st.sd, from))
         IN  IF Len(parts) # 3 THEN Run(popped, "ValueError")
             ELSE Run(set(set(set(popped, q, parts[1]), k, parts[2]), v, parts[3]), "")

\* The vision loops: for k in list(state_dict.keys()), a key holding w_old or
\* else b_old is popped and stored again under the replaced name.
RECURSIVE rename_keys(_, _, _, _, _, _)
rename_keys(sd, ks, w_old, w_new, b_old, b_new) ==
    IF ks = <<>> THEN sd
    ELSE LET k    == Head(ks)
             next == IF contains(k, w_old)
                     THEN set(del(sd, k), replace(k, w_old, w_new), get(sd, k))
                     ELSE IF contains(k, b_old)
                     THEN set(del(sd, k), replace(k, b_old, b_new), get(sd, k))
                     ELSE sd
         IN  rename_keys(next, Tail(ks), w_old, w_new, b_old, b_new)

LayerKey(prefix, i, name) == prefix \o "bert.encoder.layer." \o ToString(i) \o "." \o name

\* The text loop from separate to fused layout.
RECURSIVE fuse_layers(_, _, _)
fuse_layers(st, prefix, i) ==
    IF st.exc # "" \/ ~has(st.sd, LayerKey(prefix, i, "attention.self.query.weight")) THEN st
    ELSE LET s1 == fuse(st, LayerKey(prefix, i, "attention.self.Wqkv.weight"),
                        LayerKey(prefix, i, "attention.self.query.weight"),
                        LayerKey(prefix, i, "attention.self.key.weight"),
                        LayerKey(prefix, i, "attention.self.value.weight"))
             s2 == fuse(s1, LayerKey(prefix, i, "attention.self.Wqkv.bias"),
                        LayerKey(prefix, i, "attention.self.query.bias"),
                        LayerKey(prefix, i, "attention.self.key.bias"),
                        LayerKey(prefix, i, "attention.self.value.bias"))
             s3 == move(s2, LayerKey(prefix, i, "attention.self.out_proj.weight"),
                        LayerKey(prefix, i, "attention.output.dense.weight"))
             s4 == move(s3, LayerKey(prefix, i, "attention.self.out_proj.bias"),
                        LayerKey(prefix, i, "attention.output.dense.bias"))
         IN  fuse_layers(s4, prefix, i + 1)

\* The key the fused-to-separate loop pops for the output bias: the source
\* spells its prefix "module." whatever prefix the mapping has.
out_proj_bias_key(prefix, i) == LayerKey("module.", i, "attention.self.out_proj.bias")

\* The text loop from fused to separate layout.
RECURSIVE split_layers(_, _, _)
split_layers(st, prefix, i) ==
    IF st.exc # "" \/ ~has(st.sd, LayerKey(prefix, i, "attention.self.Wqkv.weight")) THEN st
    ELSE LET s1 == split(st, LayerKey(prefix, i, "attention.self.Wqkv.weight"),
                         LayerKey(prefix, i, "attention.self.query.weight"),
                         LayerKey(prefix, i, "attention.self.key.weight"),
                         LayerKey(prefix, i, "attention.self.value.weight"))
             s2 == split(s1, LayerKey(prefix, i, "attention.self.Wqkv.bias"),
                         LayerKey(prefix, i, "attention.self.query.bias"),
                         LayerKey(prefix, i, "attention.self.key.bias"),
                         LayerKey(prefix, i, "attention.self.value.bias"))
             s3 == move(s2, LayerKey(prefix, i, "attention.output.dense.weight"),
                        LayerKey(prefix, i, "attention.self.out_proj.weight"))
             s4 == move(s3, LayerKey(prefix, i, "attention.output.dense.bias"),
                        out_proj_bias_key(prefix, i))
         IN  split_layers(s4, prefix, i + 1)

\* convert_state_dict: the mapping after the call and the exception raised.
convert_state_dict(sd) ==
    IF sd = <<>> THEN Run(sd, "")
    ELSE
        LET prefix == IF startswith(sd[1].k, "module") THEN "module." ELSE ""
            vis ==
                IF has(sd, prefix \o "visual.transformer.resblocks.0.attn.in_proj_weight")
                THEN rename_keys(sd, keys(sd), "attn.in_proj_weight", "attn.Wqkv.weight",
                                 "attn.in_proj_bias", "attn.Wqkv.bias")
                ELSE IF has(sd, prefix \o "visual.transformer.resblocks.0.attn.Wqkv.weight")
                THEN rename_keys(sd, keys(sd), "attn.Wqkv.weight", "attn.in_proj_weight",
                                 "attn.Wqkv.bias", "attn.in_proj_bias")
                ELSE sd
        IN  IF has(vis, LayerKey(prefix, 0, "attention.self.query.weight"))
            THEN fuse_layers(Run(vis, ""), prefix, 0)
            ELSE IF has(vis, LayerKey(prefix, 0, "attention.self.Wqkv.weight"))
            THEN split_layers(Run(vis, ""), prefix, 0)
            ELSE Run(vis, "")

(***************************************************************************)
(* Checkpoints: the mappings the utilities are given.                      *)
(***************************************************************************)
Item(k, shape) == [k |-> k, v |-> Param(shape, Rows(k, IF shape = <<>> THEN 1 ELSE shape[1]))]

\* The attention parameters of text layer i, h the hidden size.
TextLayer(prefix, i, layout, h) ==
    IF layout = "separate"
    THEN <<Item(LayerKey(prefix, i, "attention.self.query.weight"), <<h, h>>),
           Item(LayerKey(prefix, i, "attention.self.query.bias"), <<h>>),
           Item(LayerKey(prefix, i, "attention.self.key.weight"), <<h, h>>),
           Item(LayerKey(prefix, i, "attention.self.key.bias"), <<h>>),
           Item(LayerKey(prefix, i, "attention.self.value.weight"), <<h, h>>),
           Item(LayerKey(prefix, i, "attention.self.value.bias"), <<h>>),
           Item(LayerKey(prefix, i, "attention.output.dense.weight"), <<h, h>>),
           Item(LayerKey(prefix, i, "attention.output.dense.bias"), <<h>>)>>
    ELSE <<Item(LayerKey(prefix, i, "attention.self.Wqkv.weight"), <<3 * h, h>>),
           Item(LayerKey(prefix, i, "attention.self.Wqkv.bias"), <<3 * h>>),
           Item(LayerKey(prefix, i, "attention.self.out_proj.weight"), <<h, h>>),
           Item(LayerKey(prefix, i, "attention.self.out_proj.bias"), <<h>>)>>

RECURSIVE TextLayers(_, _, _, _, _)
TextLayers(prefix, layers, layout, h, i) ==
    IF i >= MaxLayers THEN <<>>
    ELSE (IF i \in layers THEN TextLayer(prefix, i, layout, h) ELSE <<>>)
             \o TextLayers(prefix, layers, layout, h, i + 1)

BlockKey(prefix, j, name) ==
    prefix \o "visual.transformer.resblocks." \o ToString(j) \o "." \o name

\* The attention parameters of vision block j, h the width.
VisionBlock(prefix, j, layout, h) ==
    IF layout = "separate"
    THEN <<Item(BlockKey(prefix, j, "attn.in_proj_weight"), <<3 * h, h>>),
           Item(BlockKey(prefix, j, "attn.in_proj_bias"), <<3 * h>>),
           Item(BlockKey(prefix, j, "attn.out_proj.weight"), <<h, h>>)>>
    ELSE <<Item(BlockKey(prefix, j, "attn.Wqkv.weight"), <<3 * h, h>>),
           Item(BlockKey(prefix, j, "attn.Wqkv.bias"), <<3 * h>>),
           Item(BlockKey(prefix, j, "attn.out_proj.weight"), <<h, h>>)>>

RECURSIVE VisionBlocks(_, _, _, _, _)
VisionBlocks(prefix, n, layout, h, j) ==
    IF j >= n THEN <<>>
    ELSE VisionBlock(prefix, j, layout, h) \o VisionBlocks(prefix, n, layout, h, j + 1)

\* A whole-model checkpoint: the parameters that are not attention weights
\* (when others is set), then the vision blocks, then the text layers.
Checkpoint(prefix, others, blocks, layers, layout, h) ==
    (IF others THEN <<Item(prefix \o "logit_scale", <<>>),
                      Item(prefix \o "visual.conv1.weight", <<h, 3>>)>> ELSE <<>>)
    \o VisionBlocks(prefix, blocks, layout, h, 0)
    \o (IF others THEN <<Item(prefix \o "bert.embeddings.word_embeddings.weight", <<2, h>>)>>
        ELSE <<>>)
    \o TextLayers(prefix, layers, layout, h, 0)

(***************************************************************************)
(* convert_state_dict applied, repeatedly, to one mapping.                 *)
(***************************************************************************)
IdleCLIP ==
    /\ visual_kind = "VisualTransformer"
    /\ embed_dim = 1 /\ vision_width = 1 /\ grid = 1 /\ text_hidden_size = 1
    /\ call = Call("__init__", None, None, None, 0, FALSE)
    /\ outcome = Returned(None)
    /\ trace = <<>>

InitConvert ==
    /\ IdleCLIP
    /\ IdleRestore
    /\ IdleMask
    /\ \E prefix \in {"", "module."}, others \in BOOLEAN, blocks \in 0..MaxBlocks,
          layers \in SUBSET (0..(MaxLayers - 1)), layout \in {"separate", "fused"},
          h \in 1..MaxRows :
            state_dict = Checkpoint(prefix, others, blocks, layers, layout, h)
    /\ state_dict0 = state_dict
    /\ nconv = 0
    /\ conv_exc = ""

ConvertStateDict ==
    /\ nconv < MaxConversions
    /\ LET res == convert_state_dict(state_dict)
       IN  /\ state_dict' = res.sd
           /\ conv_exc' = res.exc
    /\ nconv' = nconv + 1
    /\ UNCHANGED <<state_dict0, clip_vars, restore_vars, mask_vars>>

NextConvert == ConvertStateDict

SpecConvert == InitConvert /\ [][NextConvert]_vars

(***************************************************************************)
(* convert_weights, resize_pos_embed, load_state_dict on the target model. *)
(* A model parameter is [name, shape, dtype, data, grad, grad_dtype]; grad *)
(* is "None" or says whether the gradient's elements are "zero" or         *)
(* "nonzero".                                                              *)
(***************************************************************************)
RECURSIVE numel(_)
numel(shape) == IF shape = <<>> THEN 1 ELSE Head(shape) * numel(Tail(shape))

\* convert_weights: every parameter's data becomes half precision; the test
\* "if param.grad:" takes the truth value of the gradient tensor, which is
\* an error for a tensor of more than one element.
RECURSIVE convert_weights(_, _)
convert_weights(params, i) ==
    IF i > Len(params) THEN Run(params, "")
    ELSE LET p    == params[i]
             half == [p EXCEPT !.dtype = "float16"]
         IN  IF p.grad = "None" THEN convert_weights([params EXCEPT ![i] = half], i + 1)
             ELSE IF numel(p.shape) # 1 THEN Run([params EXCEPT ![i] = half], "RuntimeError")
             ELSE IF p.grad = "zero" THEN convert_weights([params EXCEPT ![i] = half], i + 1)
             ELSE convert_weights(
                      [params EXCEPT ![i] = [half EXCEPT !.grad_dtype = "float32"]], i + 1)

\* convert_models_to_fp32: every parameter's data becomes full precision; the
\* test "if p.grad:" is the one of convert_weights.
RECURSIVE convert_models_to_fp32(_, _)
convert_models_to_fp32(params, i) ==
    IF i > Len(params) THEN Run(params, "")
    ELSE LET p    == params[i]
             full == [p EXCEPT !.dtype = "float32"]
         IN  IF p.grad = "None" THEN convert_models_to_fp32([params EXCEPT ![i] = full], i + 1)
             ELSE IF numel(p.shape) # 1 THEN Run([params EXCEPT ![i] = full], "RuntimeError")
             ELSE IF p.grad = "zero"
             THEN convert_models_to_fp32([params EXCEPT ![i] = full], i + 1)
             ELSE convert_models_to_fp32(
                      [params EXCEPT ![i] = [full EXCEPT !.grad_dtype = "float32"]], i + 1)

\* int(math.sqrt(n))
isqrt(n) == CHOOSE g \in 0..n : g * g <= n /\ (g + 1) * (g + 1) > n

\* Mutation of new_seq_len: the class token is not counted.
new_seq_len_no_extra(grid_size) == grid_size[1] * grid_size[2]

\* extra_tokens = 1; new_seq_len = grid_size[0] * grid_size[1] + extra_tokens
new_seq_len(grid_size) == grid_size[1] * grid_size[2] + 1

\* Mutation of pos_emb_tok: the table is taken to have no class-token row.
pos_emb_tok_none(old_pos_embed) == Param(<<0>> \o Tail(old_pos_embed.shape), <<>>)

\* old_pos_embed[:extra_tokens]
pos_emb_tok(old_pos_embed) ==
    LET n == IF old_pos_embed.shape[1] >= 1 THEN 1 ELSE 0
    IN  Param(<<n>> \o Tail(old_pos_embed.shape), SubSeq(old_pos_embed.data, 1, n))

\* Mutation of cat_rows: the widths are not compared.
cat_rows_any(a, b) == <<Param(<<a.shape[1] + b.shape[1]>> \o Tail(a.shape), a.data \o b.data)>>

\* torch.cat([a, b], dim=0): every dimension but dim 0 must agree.
cat_rows(a, b) ==
    IF Len(a.shape) >= 1 /\ Len(b.shape) = Len(a.shape) /\ Tail(b.shape) = Tail(a.shape)
    THEN <<Param(<<a.shape[1] + b.shape[1]>> \o Tail(a.shape), a.data \o b.data)>>
    ELSE <<>>

\* resize_pos_embed(state_dict, model): has_grid_size tells whether
\* model.visual has a grid_size attribute, grid_size is its value.  The rows
\* F.interpolate produces are new values, named after the table they come from.
resize_pos_embed(sd, has_grid_size, grid_size) ==
    LET key == "visual.positional_embedding"
    IN  IF ~has(sd, key) \/ ~has_grid_size THEN Run(sd, "")
        ELSE
            LET old_pos_embed == get(sd, key)
                tok           == pos_emb_tok(old_pos_embed)
                n_img         == old_pos_embed.shape[1] - tok.shape[1]
                width         == old_pos_embed.shape[2]
                old_grid      == isqrt(n_img)
                channels      == (n_img * width) \div (old_grid * old_grid)
                pos_emb_img   == Param(<<grid_size[1] * grid_size[2], channels>>,
                                       [i \in 1..(grid_size[1] * grid_size[2]) |->
                                           "bicubic(" \o key \o ")[" \o ToString(i - 1) \o "]"])
                new_pos_embed == cat_rows(tok, pos_emb_img)
            IN  IF new_seq_len(grid_size) = old_pos_embed.shape[1] THEN Run(sd, "")
                \* reshape(1, g, g, -1): the element count must split over g*g
                ELSE IF old_grid = 0 THEN Run(sd, "RuntimeError")
                ELSE IF (n_img * width) % (old_grid * old_grid) # 0 THEN Run(sd, "RuntimeError")
                ELSE IF new_pos_embed = <<>> THEN Run(sd, "RuntimeError")
                ELSE Run(set(sd, key, new_pos_embed[1]), "")

\* model.load_state_dict(sd, strict=False): a parameter whose name is in sd
\* takes its value when the shapes agree; missing and unexpected keys are
\* ignored; any shape mismatch raises RuntimeError after the copies.
load_state_dict(params, sd) ==
    LET loaded == [i \in DOMAIN params |->
                      IF has(sd, params[i].name) /\ get(sd, params[i].name).shape = params[i].shape
                      THEN [params[i] EXCEPT !.data = get(sd, params[i].name).data]
                      ELSE params[i]]
        mismatch == \E i \in DOMAIN params :
                        has(sd, params[i].name) /\ get(sd, params[i].name).shape # params[i].shape
    IN  Run(loaded, IF mismatch THEN "RuntimeError" ELSE "")

(***************************************************************************)
(* restore_model                                                           *)
(***************************************************************************)
\* The key filters of the two merge loops.
keep_clip_key(k) == startswith(k, "visual") \/ k = "logit_scale"

\* Mutation of keep_bert_key: the pooler keys are not excluded.
keep_bert_key_any(k) == startswith(k, "bert")

keep_bert_key(k) == startswith(k, "bert") /\ ~contains(k, "bert.pooler")

\* for k, v in d.items(): if keep(k): merged[k] = v
RECURSIVE merge_from(_, _, _)
merge_from(merged, items, from_clip) ==
    IF items = <<>> THEN merged
    ELSE LET e == Head(items)
             keep == IF from_clip THEN keep_clip_key(e.k) ELSE keep_bert_key(e.k)
         IN  merge_from(IF keep THEN set(merged, e.k, e.v) ELSE merged, Tail(items), from_clip)

merge(clip, bert) ==
    LET m1 == IF clip.is_none THEN <<>> ELSE merge_from(<<>>, clip.items, TRUE)
    IN  IF bert.is_none THEN m1 ELSE merge_from(m1, bert.items, FALSE)

\* Mutation of restore_after: the load comes before the resize.
restore_after_load_first(stmt) ==
    CASE stmt = "merge"              -> "convert_state_dict"
      [] stmt = "convert_state_dict" -> "convert_weights"
      [] stmt = "convert_weights"    -> "load_state_dict"
      [] stmt = "load_state_dict"    -> "resize_pos_embed"
      [] stmt = "resize_pos_embed"   -> "eval"
      [] stmt = "eval"               -> "returned"

\* The statement that follows each statement of restore_model's body.
restore_after(stmt) ==
    CASE stmt = "merge"              -> "convert_state_dict"
      [] stmt = "convert_state_dict" -> "convert_weights"
      [] stmt = "convert_weights"    -> "resize_pos_embed"
      [] stmt = "resize_pos_embed"   -> "load_state_dict"
      [] stmt = "load_state_dict"    -> "eval"
      [] stmt = "eval"               -> "returned"

\* The parameters of the target model, in model.parameters() order.
ModelParams(kind, g, h, grad) ==
    LET P(name, shape) == [name |-> name, shape |-> shape, dtype |-> "float32",
                           data |-> Rows("init:" \o name, IF shape = <<>> THEN 1 ELSE shape[1]),
                           grad |-> grad, grad_dtype |-> "float32"]
    IN  <<P("logit_scale", <<>>),
          P(IF kind = "VisualTransformer" THEN "visual.positional_embedding"
            ELSE "visual.attnpool.positional_embedding", <<g * g + 1, h>>),
          P("bert.embeddings.word_embeddings.weight", <<2, h>>)>>

Retag(items, tag) ==
    [i \in DOMAIN items |->
        [k |-> items[i].k,
         v |-> Param(items[i].v.shape,
                     [j \in DOMAIN items[i].v.data |-> tag \o ":" \o items[i].v.data[j]])]]

\* A checkpoint of a whole CLIP model of the given backbone kind: rows is the
\* length of its positional-embedding table, 0 for none.
ClipCheckpoint(kind, rows, blocks, layout, h) ==
    Retag(
        <<Item("logit_scale", <<>>), Item("logit_scale_left", <<>>),
          Item("visual.conv1.weight", <<h, 3>>)>>
        \o (IF rows = 0 THEN <<>>
            ELSE <<Item(IF kind = "VisualTransformer" THEN "visual.positional_embedding"
                        ELSE "visual.attnpool.positional_embedding", <<rows, h>>)>>)
        \o VisionBlocks("", blocks, layout, h, 0)
        \o <<Item("visualizer.weight", <<h>>),
             Item("module.visual.conv1.weight", <<h, 3>>),
             Item("bert.embeddings.word_embeddings.weight", <<2, h>>),
             Item("text_projection.0.weight", <<h, h>>)>>,
        "clip")

\* A checkpoint of a text model.
BertCheckpoint(layers, layout, h) ==
    Retag(
        <<Item("bert.embeddings.word_embeddings.weight", <<2, h>>)>>
        \o TextLayers("", 0..(layers - 1), layout, h, 0)
        \o <<Item("bert.pooler.dense.weight", <<h, h>>),
             Item("bert.encoder.bert.pooler.bias", <<h>>),
             Item("bert_extra.weight", <<h>>),
             Item("cls.predictions.bias", <<h>>),
             Item("visual.conv1.weight", <<h, 3>>),
             Item("logit_scale", <<>>)>>,
        "bert")

Dict(items) == [is_none |-> FALSE, items |-> items]

InitRestore ==
    /\ visual_kind \in {"ModifiedResNet", "VisualTransformer"}
    /\ grid \in 1..MaxGrid
    /\ vision_width \in 1..MaxRows
    /\ embed_dim = 1 /\ text_hidden_size = vision_width
    /\ call = Call("__init__", None, None, None, 0, FALSE)
    /\ outcome = Returned(None)
    /\ trace = <<>>
    /\ IdleConvert
    /\ IdleMask
    /\ clip_state_dict \in {NoneDict} \cup
           {Dict(ClipCheckpoint(kind, rows, blocks, layout, vision_width)) :
                kind \in {"ModifiedResNet", "VisualTransformer"}, rows \in 0..MaxPosRows,
                blocks \in 0..MaxBlocks, layout \in {"separate", "fused"}}
    /\ bert_state_dict \in {NoneDict} \cup
           {Dict(BertCheckpoint(layers, layout, vision_width)) :
                layers \in 0..MaxLayers, layout \in {"separate", "fused"}}
    /\ use_flash_attention \in BOOLEAN
    /\ merged_state_dict = <<>>
    /\ \E grad \in {"None", "nonzero"} :
           model = [training |-> TRUE,
                    params |-> ModelParams(visual_kind, grid, vision_width, grad)]
    /\ pc = "merge"
    /\ steps = <<>>
    /\ restore_exc = ""

Raise(exc) == pc' = "raised" /\ restore_exc' = exc

\* merged_state_dict = {} and the two merge loops
RestoreMerge ==
    /\ pc = "merge"
    /\ merged_state_dict' = merge(clip_state_dict, bert_state_dict)
    /\ steps' = Append(steps, "merge")
    /\ pc' = restore_after("merge")
    /\ UNCHANGED <<clip_vars, convert_vars, mask_vars, clip_state_dict, bert_state_dict,
                   use_flash_attention, model, restore_exc>>

\* if use_flash_attention: merged_state_dict = convert_state_dict(merged_state_dict)
RestoreConvertStateDict ==
    /\ pc = "convert_state_dict"
    /\ IF use_flash_attention
       THEN LET res == convert_state_dict(merged_state_dict)
            IN  /\ merged_state_dict' = res.sd
                /\ steps' = Append(steps, "convert_state_dict")
                /\ IF res.exc # "" THEN Raise(res.exc)
                   ELSE pc' = restore_after("convert_state_dict") /\ UNCHANGED restore_exc
       ELSE /\ pc' = restore_after("convert_state_dict")
            /\ UNCHANGED <<merged_state_dict, steps, restore_exc>>
    /\ UNCHANGED <<clip_vars, convert_vars, mask_vars, clip_state_dict, bert_state_dict,
                   use_flash_attention, model>>

\* convert_weights(model)
RestoreConvertWeights ==
    /\ pc = "convert_weights"
    /\ LET res == convert_weights(model.params, 1)
       IN  /\ model' = [model EXCEPT !.params = res.sd]
           /\ IF res.exc # "" THEN Raise(res.exc)
              ELSE pc' = restore_after("convert_weights") /\ UNCHANGED restore_exc
    /\ steps' = Append(steps, "convert_weights")
    /\ UNCHANGED <<clip_vars, convert_vars, mask_vars, clip_state_dict, bert_state_dict,
                   use_flash_attention, merged_state_dict>>

\* resize_pos_embed(merged_state_dict, model)
RestoreResizePosEmbed ==
    /\ pc = "resize_pos_embed"
    /\ LET res == resize_pos_embed(merged_state_dict, visual_kind = "VisualTransformer",
                                   <<grid, grid>>)
       IN  /\ merged_state_dict' = res.sd
           /\ IF res.exc # "" THEN Raise(res.exc)
              ELSE pc' = restore_after("resize_pos_embed") /\ UNCHANGED restore_exc
    /\ steps' = Append(steps, "resize_pos_embed")
    /\ UNCHANGED <<clip_vars, convert_vars, mask_vars, clip_state_dict, bert_state_dict,
                   use_flash_attention, model>>

\* model.load_state_dict(merged_state_dict, strict=False)
RestoreLoadStateDict ==
    /\ pc = "load_state_dict"
    /\ LET res == load_state_dict(model.params, merged_state_dict)
       IN  /\ model' = [model EXCEPT !.params = res.sd]
           /\ IF res.exc # "" THEN Raise(res.exc)
              ELSE pc' = restore_after("load_state_dict") /\ UNCHANGED restore_exc
    /\ steps' = Append(steps, "load_state_dict")
    /\ UNCHANGED <<clip_vars, convert_vars, mask_vars, clip_state_dict, bert_state_dict,
                   use_flash_attention, merged_state_dict>>

\* return model.eval()
RestoreEval ==
    /\ pc = "eval"
    /\ model' = [model EXCEPT !.training = FALSE]
    /\ steps' = Append(steps, "eval")
    /\ pc' = restore_after("eval")
    /\ UNCHANGED <<clip_vars, convert_vars, mask_vars, clip_state_dict, bert_state_dict,
                   use_flash_attention, merged_state_dict, restore_exc>>

NextRestore ==
    \/ RestoreMerge
    \/ RestoreConvertStateDict
    \/ RestoreConvertWeights
    \/ RestoreResizePosEmbed
    \/ RestoreLoadStateDict
    \/ RestoreEval

SpecRestore == InitRestore /\ [][NextRestore]_vars

(***************************************************************************)
(* resize_pos_embed applied to one mapping, for a model whose visual is of *)
(* kind visual_kind with grid_size (grid, grid).                           *)
(***************************************************************************)
PosKey == "visual.positional_embedding"

\* A checkpoint holding a positional-embedding table of the given number of
\* rows and width under prefix + PosKey (rows = 0: no table), between the
\* parameters that are not positional embeddings (when others is set).
PosCheckpoint(prefix, others, rows, width) ==
    (IF others THEN <<Item(prefix \o "logit_scale", <<>>),
                      Item(prefix \o "visual.class_embedding", <<width>>)>> ELSE <<>>)
    \o (IF rows = 0 THEN <<>> ELSE <<Item(prefix \o PosKey, <<rows, width>>)>>)
    \o (IF others THEN <<Item(prefix \o "bert.embeddings.position_embeddings.weight",
                              <<rows + 1, width>>)>>
        ELSE <<>>)

InitResize ==
    /\ visual_kind \in {"ModifiedResNet", "VisualTransformer"}
    /\ grid \in 1..MaxGrid
    /\ embed_dim = 1 /\ vision_width = 1 /\ text_hidden_size = 1
    /\ call = Call("__init__", None, None, None, 0, FALSE)
    /\ outcome = Returned(None)
    /\ trace = <<>>
    /\ IdleRestore
    /\ IdleMask
    /\ \E prefix \in {"", "module."}, others \in BOOLEAN, rows \in 0..MaxStoredRows,
          width \in 1..MaxWidth :
            state_dict = PosCheckpoint(prefix, others, rows, width)
    /\ state_dict0 = state_dict
    /\ nconv = 0
    /\ conv_exc = ""

\* resize_pos_embed(state_dict, model)
ResizePosEmbed ==
    /\ nconv < MaxConversions
    /\ LET res == resize_pos_embed(state_dict, visual_kind = "VisualTransformer",
                                   <<grid, grid>>)
       IN  /\ state_dict' = res.sd
           /\ conv_exc' = res.exc
    /\ nconv' = nconv + 1
    /\ UNCHANGED <<state_dict0, clip_vars, restore_vars, mask_vars>>

NextResize == ResizePosEmbed

SpecResize == InitResize /\ [][NextResize]_vars

(***************************************************************************)
(* The masking step of the patch-transformer backbone on one batch.        *)
(***************************************************************************)
\* The mask ratios given to the step, in percent.
MaskPercents == {0, 25, 50, 75, 100}

\* A batch of N rows of L tokens, each token named after its position.
TokenBatch(N, L) ==
    [n \in 1..N |-> [i \in 1..L |-> "x[" \o ToString(n - 1) \o "][" \o ToString(i - 1) \o "]"]]

\* The orders torch.argsort can give the members of S.
RECURSIVE Permutations_of(_)
Permutations_of(S) ==
    IF S = {} THEN {<<>>}
    ELSE UNION {{<<e>> \o q : q \in Permutations_of(S \ {e})} : e \in S}

\* The values of torch.argsort(torch.rand(N, L - 1), dim=1)
ArgsortNoise(N, L) == [1..N -> Permutations_of(0..(L - 2))]

InitMask ==
    /\ IdleCLIP
    /\ IdleConvert
    /\ IdleRestore
    /\ \E N \in 1..MaxBatch, L \in 1..MaxSeqLen : seq_in = TokenBatch(N, L)
    /\ seq_ratio = 0
    /\ seq_out = <<>>
    /\ seq_op = "none"

\* x_masked_add = self.random_masking(x, mask_ratio)
RandomMasking ==
    /\ seq_op = "none"
    /\ \E mask_ratio \in MaskPercents,
          argsort_noise \in ArgsortNoise(Len(seq_in), Len(seq_in[1])) :
            /\ seq_ratio' = mask_ratio
            /\ seq_out' = random_masking_tokens(seq_in, mask_ratio, argsort_noise)
    /\ seq_op' = "random_masking"
    /\ UNCHANGED <<seq_in, clip_vars, convert_vars, restore_vars>>

\* The masking statement of VisualTransformer.forward on x
ForwardMasking ==
    /\ seq_op = "none"
    /\ \E mask_ratio \in MaskPercents,
          argsort_noise \in ArgsortNoise(Len(seq_in), Len(seq_in[1])) :
            /\ seq_ratio' = mask_ratio
            /\ seq_out' = masked_sequence(seq_in, mask_ratio, argsort_noise)
    /\ seq_op' = "forward"
    /\ UNCHANGED <<seq_in, clip_vars, convert_vars, restore_vars>>

NextMask == RandomMasking \/ ForwardMasking

SpecMask == InitMask /\ [][NextMask]_vars

(***************************************************************************)
(* The precision conversions applied, one after another, to one model.     *)
(***************************************************************************)
\* A parameter in the given precision; its gradient, when present, has the
\* precision of the parameter.
PrecisionParam(name, shape, dtype, grad) ==
    [name |-> name, shape |-> shape, dtype |-> dtype,
     data |-> Rows("init:" \o name, IF shape = <<>> THEN 1 ELSE shape[1]),
     grad |-> grad, grad_dtype |-> dtype]

InitPrecision ==
    /\ IdleCLIP
    /\ IdleConvert
    /\ IdleMask
    /\ clip_state_dict = NoneDict /\ bert_state_dict = NoneDict
    /\ use_flash_attention = FALSE
    /\ merged_state_dict = <<>>
    /\ \E dtype \in {"float32", "float16"}, h \in 1..MaxRows,
          grad_scale \in {"None", "zero", "nonzero"},
          grad_proj \in {"None", "zero", "nonzero"} :
            model = [training |-> TRUE,
                     params |-> <<PrecisionParam("logit_scale", <<>>, dtype, grad_scale),
                                  PrecisionParam("visual.proj", <<h, 1>>, dtype, grad_proj)>>]
    /\ pc = "idle"
    /\ steps = <<>>
    /\ restore_exc = ""

\* convert_weights(model)
ConvertWeights ==
    /\ pc = "idle" /\ Len(steps) < MaxConversions
    /\ LET res == convert_weights(model.params, 1)
       IN  /\ model' = [model EXCEPT !.params = res.sd]
           /\ restore_exc' = res.exc
    /\ steps' = Append(steps, "convert_weights")
    /\ UNCHANGED <<clip_vars, convert_vars, mask_vars, clip_state_dict, bert_state_dict,
                   use_flash_attention, merged_state_dict, pc>>

\* convert_models_to_fp32(model)
ConvertModelsToFp32 ==
    /\ pc = "idle" /\ Len(steps) < MaxConversions
    /\ LET res == convert_models_to_fp32(model.params, 1)
       IN  /\ model' = [model EXCEPT !.params = res.sd]
           /\ restore_exc' = res.exc
    /\ steps' = Append(steps, "convert_models_to_fp32")
    /\ UNCHANGED <<clip_vars, convert_vars, mask_vars, clip_state_dict, bert_state_dict,
                   use_flash_attention, merged_state_dict, pc>>

NextPrecision == ConvertWeights \/ ConvertModelsToFp32

SpecPrecision == InitPrecision /\ [][NextPrecision]_vars

(***************************************************************************)
(* Properties of CLIP.forward, CLIP.encode_image and CLIP.get_similarity.  *)
(***************************************************************************)
IsAssertionError(o) ==
    o.kind = "raise" /\ Len(o.exc) >= 14 /\ SubSeq(o.exc, 1, 14) = "AssertionError"

ForwardAllPresent ==
    call.op = "forward" /\ ~IsNone(call.img_l) /\ ~IsNone(call.img_r) /\ ~IsNone(call.text)

BothImages == ~IsNone(call.img_l) /\ ~IsNone(call.img_r)

ExactlyOneImage == IsNone(call.img_l) # IsNone(call.img_r)

BatchSize ==
    IF ~IsNone(call.img_l) THEN call.img_l.shape[1]
    ELSE IF ~IsNone(call.img_r) THEN call.img_r.shape[1]
    ELSE call.text.shape[1]

\* The raw output of the backbone for one image, as encode_image calls it.
RawBackbone(img) ==
    IF visual_kind = "ModifiedResNet" THEN ModifiedResNet_forward(img)
    ELSE VisualTransformer_forward(img, call.mask_ratio, TRUE)

\* C1: forward with img_l, img_r and text all present returns the 9-tuple
\* (image_global, text_global, text_left, text_right, image_left, image_right,
\* exp(logit_scale), exp(logit_scale_left), exp(logit_scale_right)): the
\* normalized outputs of encode_image and encode_text and the three scales.
C1_ForwardReturnsNineTuple ==
    ForwardAllPresent =>
        /\ outcome.kind = "return"
        /\ outcome.tuple
        /\ Len(outcome.value) = 9
        /\ LET ei == encode_image(call.img_l, call.img_r, call.mask_ratio, FALSE).out
               et == encode_text(call.text).out
           IN  /\ ei.kind = "return" /\ Len(ei.value) = 3
               /\ outcome.value = <<normalize(ei.value[1]), normalize(et.value[1]),
                                    normalize(et.value[2]), normalize(et.value[3]),
                                    normalize(ei.value[2]), normalize(ei.value[3]),
                                    logit_scale_exp("logit_scale"),
                                    logit_scale_exp("logit_scale_left"),
                                    logit_scale_exp("logit_scale_right")>>

\* C2: forward fails with an assertion, before any encoder runs, when all
\* three inputs are absent and when text is present with exactly one image;
\* in every other presence combination no assertion fires.
C2_ForwardAssertions ==
    call.op = "forward" =>
        LET allAbsent == IsNone(call.img_l) /\ IsNone(call.img_r) /\ IsNone(call.text)
            oneSide   == ~IsNone(call.text) /\ ExactlyOneImage
        IN  /\ allAbsent =>
                /\ outcome.exc = "AssertionError: text and images cannot all be None!"
                /\ IsAssertionError(outcome) /\ trace = <<>>
            /\ oneSide =>
                /\ outcome.exc = "AssertionError: both images is required!"
                /\ IsAssertionError(outcome) /\ trace = <<>>
            /\ ~(allAbsent \/ oneSide) => ~IsAssertionError(outcome)

C2_Witness ==
    /\ call.op = "forward"
    /\ ~IsNone(call.text) /\ ~IsNone(call.img_l) /\ IsNone(call.img_r)
    /\ IsAssertionError(outcome)
    /\ trace = <<>>

\* C3: forward with both images absent and text present returns the triple of
\* encode_text(text); with text absent and at least one image present (left
\* only, right only, or both) it returns the result of encode_image on the
\* images that are present, un-normalized and without logit scales.
C3_ForwardDispatch ==
    call.op = "forward" =>
        /\ (IsNone(call.img_l) /\ IsNone(call.img_r) /\ ~IsNone(call.text)) =>
                /\ outcome.kind = "return"
                /\ outcome = encode_text(call.text).out
        /\ (IsNone(call.text) /\ (~IsNone(call.img_l) \/ ~IsNone(call.img_r))) =>
                /\ outcome.kind = "return"
                /\ outcome = encode_image(call.img_l, call.img_r, 0, FALSE).out

\* C4: for either backbone kind, encode_image with both images present runs
\* the backbone once on each side and returns three outputs: the global
\* mapping of the concatenation (left, right) of the raw backbone outputs, a
\* per-side linear map of the left output and one of the right output.
C4_EncodeImageThreeOutputs ==
    (call.op = "encode_image" /\ BothImages) =>
        /\ outcome.kind = "return"
        /\ outcome.tuple
        /\ Len(outcome.value) = 3
        /\ SubSeq(trace, 1, 2) = <<VisualEvent(call.img_l), VisualEvent(call.img_r)>>
        /\ \A i \in 3..Len(trace) : trace[i] \notin {VisualEvent(call.img_l), VisualEvent(call.img_r)}
        /\ LET left  == RawBackbone(call.img_l)
               right == RawBackbone(call.img_r)
           IN  /\ outcome.value[1].val =
                      "global_feature_mapping(cat(" \o left.val \o "," \o right.val \o "))"
               /\ \E m \in CLIPAttributes : outcome.value[2].val = m \o "(" \o left.val \o ")"
               /\ \E m \in CLIPAttributes : outcome.value[3].val = m \o "(" \o right.val \o ")"

\* C5: encode_image with both sides present returns three outputs of shape
\* (N, embed_dim): each raw backbone output has shape (N, embed_dim), their
\* concatenation has shape (N, 2*embed_dim), the input width of the global
\* mapping, and each per-side mapping receives input width embed_dim.
C5_EncodeImageShapes ==
    (call.op = "encode_image" /\ BothImages) =>
        LET left  == RawBackbone(call.img_l)
            right == RawBackbone(call.img_r)
            both  == cat_dim1(left, right)
        IN  /\ left.shape = <<BatchSize, embed_dim>>
            /\ right.shape = <<BatchSize, embed_dim>>
            /\ both.kind = "return"
            /\ both.value[1].shape = <<BatchSize, 2 * embed_dim>>
            /\ outcome.kind = "return"
            /\ Len(outcome.value) = 3
            /\ \A i \in 1..3 : outcome.value[i].shape = <<BatchSize, embed_dim>>

\* C6: encode_image with exactly one image present returns the backbone's
\* output for that side directly, as a single value and not a tuple: no
\* feature mapping is applied and the backbone sees only the present side.
C6_EncodeImageOneSide ==
    (call.op = "encode_image" /\ ExactlyOneImage) =>
        LET img == IF IsNone(call.img_r) THEN call.img_l ELSE call.img_r
        IN  /\ outcome.kind = "return"
            /\ ~outcome.tuple
            /\ Len(outcome.value) = 1
            /\ outcome.value[1] = RawBackbone(img)
            /\ trace = <<VisualEvent(img)>>

C6_Witness ==
    /\ call.op = "encode_image"
    /\ IsNone(call.img_l) /\ ~IsNone(call.img_r)
    /\ visual_kind = "VisualTransformer"
    /\ call.mask_ratio # 0
    /\ outcome.kind = "return"
    /\ trace = <<VisualEvent(call.img_r)>>

\* C7: get_similarity with both images and text present returns the pair
\* (logits_per_image, logits_per_text): exp(logit_scale) times the product of
\* the normalized global image embedding and the transposed normalized text
\* embedding, and its transpose, B x B for batch size B.
C7_GetSimilarityReturnsLogits ==
    (call.op = "get_similarity" /\ BothImages /\ ~IsNone(call.text)) =>
        /\ outcome.kind = "return"
        /\ outcome.tuple
        /\ Len(outcome.value) = 2
        /\ outcome.value[1].shape = <<BatchSize, BatchSize>>
        /\ outcome.value[2] = transpose(outcome.value[1])

\* C16: encode_image with both images absent raises and returns no
\* embedding, whichever the backbone, and calls neither the backbone nor a
\* feature mapping.
C16_EncodeImageBothAbsentFails ==
    (call.op = "encode_image" /\ IsNone(call.img_l) /\ IsNone(call.img_r))
    => (outcome.kind = "raise" /\ outcome.value = <<>> /\ trace = <<>>)

\* encode_image(None, None) has been called on a model with a convolutional
\* backbone and has raised.
C16_Witness ==
    /\ call.op = "encode_image" /\ IsNone(call.img_l) /\ IsNone(call.img_r)
    /\ visual_kind = "ModifiedResNet"
    /\ outcome.exc = "AttributeError"

\* C18: forward's mask_ratio bears on the result only when text and both
\* images are given.  In the image-only branches (text absent, one image or
\* both) the call does what encode_image does with mask_ratio 0, so a single
\* image's tokens are all kept, and in every other branch as well the outcome
\* and the calls made are the same for every mask_ratio.
C18_MaskRatioOnlyWithAllInputs ==
    (call.op = "forward" /\ ~ForwardAllPresent) =>
        /\ \A m \in MaskRatios :
               forward(call.img_l, call.img_r, call.text, m) = R(outcome, trace)
        /\ (IsNone(call.text) /\ (~IsNone(call.img_l) \/ ~IsNone(call.img_r))) =>
               /\ R(outcome, trace) = encode_image(call.img_l, call.img_r, 0, FALSE)
               /\ (visual_kind = "VisualTransformer" /\ outcome.kind = "return") =>
                      outcome.value[1].shape[2] = grid * grid + 1

\* forward(img_l, None, None, mask_ratio = 0.5) on a patch-transformer model
\* with a 2x2 grid has returned all 5 tokens.
C18_Witness ==
    /\ call.op = "forward" /\ call.mask_ratio = 50
    /\ ~IsNone(call.img_l) /\ IsNone(call.img_r) /\ IsNone(call.text)
    /\ visual_kind = "VisualTransformer" /\ grid = 2
    /\ outcome.kind = "return" /\ outcome.value[1].shape[2] = 5

(***************************************************************************)
(* Properties of the weight reconciliation utilities.                      *)
(***************************************************************************)
\* C8: the merged mapping restore_model builds, before any layout rewriting,
\* has exactly the keys of clip_state_dict that start with "visual" or equal
\* "logit_scale" and the keys of bert_state_dict that start with "bert" and
\* do not contain "bert.pooler", each with the value of its source mapping;
\* every other key is dropped and an absent input contributes no keys.
C8_MergedKeySet ==
    pc = "convert_state_dict" =>
        LET fromClip == IF clip_state_dict.is_none THEN {}
                        ELSE {k \in KeySet(clip_state_dict.items) :
                                  startswith(k, "visual") \/ k = "logit_scale"}
            fromBert == IF bert_state_dict.is_none THEN {}
                        ELSE {k \in KeySet(bert_state_dict.items) :
                                  startswith(k, "bert") /\ ~contains(k, "bert.pooler")}
        IN  /\ KeySet(merged_state_dict) = fromClip \cup fromBert
            /\ Len(merged_state_dict) = Cardinality(fromClip \cup fromBert)
            /\ \A k \in fromClip : get(merged_state_dict, k) = get(clip_state_dict.items, k)
            /\ \A k \in fromBert : get(merged_state_dict, k) = get(bert_state_dict.items, k)

C8_Witness ==
    /\ pc = "convert_state_dict"
    /\ ~clip_state_dict.is_none /\ ~bert_state_dict.is_none
    /\ has(bert_state_dict.items, "bert.pooler.dense.weight")
    /\ has(clip_state_dict.items, "text_projection.0.weight")
    /\ ~has(merged_state_dict, "bert.pooler.dense.weight")
    /\ ~has(merged_state_dict, "text_projection.0.weight")
    /\ has(merged_state_dict, "visual.conv1.weight")
    /\ has(merged_state_dict, "bert.embeddings.word_embeddings.weight")

RestoreOrder ==
    <<"merge">> \o (IF use_flash_attention THEN <<"convert_state_dict">> ELSE <<>>)
        \o <<"convert_weights", "resize_pos_embed", "load_state_dict", "eval">>

\* C9: restore_model performs its steps in a fixed order: merge, the layout
\* rewrite (only with use_flash_attention), the conversion of the model to
\* half precision, the positional-embedding resize, the non-strict load, the
\* switch to evaluation mode, return.  The resize always precedes the load
\* and the returned model is in evaluation mode.
C9_RestoreStepOrder ==
    /\ steps = SubSeq(RestoreOrder, 1, Len(steps))
    /\ \A i \in DOMAIN steps :
           steps[i] = "load_state_dict" => \E j \in 1..(i - 1) : steps[j] = "resize_pos_embed"
    /\ pc \in {"resize_pos_embed", "load_state_dict", "eval", "returned"} =>
           \A i \in DOMAIN model.params : model.params[i].dtype = "float16"
    /\ pc = "returned" =>
           /\ steps = RestoreOrder
           /\ ~model.training
           /\ restore_exc = ""

C9_Witness ==
    /\ pc = "returned"
    /\ use_flash_attention
    /\ steps = RestoreOrder
    /\ ~model.training
    /\ ~clip_state_dict.is_none
    /\ has(merged_state_dict, "visual.positional_embedding")
    /\ get(merged_state_dict, "visual.positional_embedding").shape
           # get(clip_state_dict.items, "visual.positional_embedding").shape

PrefixOf(d) == IF d # <<>> /\ startswith(d[1].k, "module") THEN "module." ELSE ""

\* A mapping in separate layout whose text layers are numbered 0..n-1.
SeparateLayout(d) ==
    /\ \A k \in KeySet(d) : ~contains(k, "Wqkv") /\ ~contains(k, "attention.self.out_proj")
    /\ \A i \in 1..MaxLayers :
           has(d, LayerKey(PrefixOf(d), i, "attention.self.query.weight"))
               => has(d, LayerKey(PrefixOf(d), i - 1, "attention.self.query.weight"))

\* C10: converting a separate-layout mapping twice (separate -> fused ->
\* separate), with or without the "module." prefix, completes without error
\* and gives back the original key set and tensors; the fused tensor is
\* query, key, value concatenated in that order.
C10_ConvertRoundTrip ==
    SeparateLayout(state_dict0) =>
        /\ nconv >= 1 => conv_exc = ""
        /\ nconv = 1 =>
               \A i \in 0..(MaxLayers - 1) :
                   LET p == PrefixOf(state_dict0)
                   IN  has(state_dict0, LayerKey(p, i, "attention.self.query.weight")) =>
                         /\ has(state_dict, LayerKey(p, i, "attention.self.Wqkv.weight"))
                         /\ get(state_dict, LayerKey(p, i, "attention.self.Wqkv.weight")).data =
                              get(state_dict0, LayerKey(p, i, "attention.self.query.weight")).data
                              \o get(state_dict0, LayerKey(p, i, "attention.self.key.weight")).data
                              \o get(state_dict0, LayerKey(p, i, "attention.self.value.weight")).data
        /\ nconv = 2 =>
               /\ KeySet(state_dict) = KeySet(state_dict0)
               /\ \A k \in KeySet(state_dict0) : get(state_dict, k) = get(state_dict0, k)

\* The names of a text layer's attention parameters in the two layouts.
SeparateNames ==
    {"attention.self.query.weight", "attention.self.query.bias",
     "attention.self.key.weight", "attention.self.key.bias",
     "attention.self.value.weight", "attention.self.value.bias",
     "attention.output.dense.weight", "attention.output.dense.bias"}

FusedNames ==
    {"attention.self.Wqkv.weight", "attention.self.Wqkv.bias",
     "attention.self.out_proj.weight", "attention.self.out_proj.bias"}

\* A mapping without any key of the fused layout.
SeparateKeys(d) ==
    \A k \in KeySet(d) : ~contains(k, "Wqkv") /\ ~contains(k, "attention.self.out_proj")

\* The text layers numbered 0..n-1 without a gap: those before the first
\* number the mapping has no query weight for.
LeadingLayers(d) ==
    {i \in 0..(MaxLayers - 1) :
        \A j \in 0..i : has(d, LayerKey(PrefixOf(d), j, "attention.self.query.weight"))}

\* The keys the conversion from the separate layout is to rewrite.
RewrittenKeys(d) ==
    {k \in KeySet(d) : contains(k, "attn.in_proj_weight") \/ contains(k, "attn.in_proj_bias")}
    \cup {LayerKey(PrefixOf(d), i, name) : i \in LeadingLayers(d), name \in SeparateNames}

\* C17: on a mapping in separate layout convert_state_dict completes and
\* leaves, for every text layer of the run 0..n-1, exactly the four fused keys
\* (Wqkv the concatenation of query, key, value; out_proj the former
\* output.dense) and none of the eight separate ones; every vision key
\* holding attn.in_proj_weight/bias is stored under attn.Wqkv.weight/bias
\* with its value; every other key, the layers beyond the first gap in the
\* numbering included, keeps its name and value; an empty mapping stays empty.
C17_ConvertFromSeparate ==
    (nconv = 1 /\ SeparateKeys(state_dict0)) =>
        LET p == PrefixOf(state_dict0)
        IN  /\ conv_exc = ""
            /\ state_dict0 = <<>> => state_dict = <<>>
            /\ \A i \in LeadingLayers(state_dict0) :
                   /\ \A name \in FusedNames : has(state_dict, LayerKey(p, i, name))
                   /\ \A name \in SeparateNames : ~has(state_dict, LayerKey(p, i, name))
                   /\ \A part \in {"weight", "bias"} :
                          /\ get(state_dict, LayerKey(p, i, "attention.self.Wqkv." \o part)).data =
                                get(state_dict0, LayerKey(p, i, "attention.self.query." \o part)).data
                                \o get(state_dict0, LayerKey(p, i, "attention.self.key." \o part)).data
                                \o get(state_dict0, LayerKey(p, i, "attention.self.value." \o part)).data
                          /\ get(state_dict, LayerKey(p, i, "attention.self.out_proj." \o part)) =
                                get(state_dict0, LayerKey(p, i, "attention.output.dense." \o part))
            /\ \A k \in KeySet(state_dict0) :
                   /\ contains(k, "attn.in_proj_weight") =>
                          /\ ~has(state_dict, k)
                          /\ has(state_dict, replace(k, "attn.in_proj_weight", "attn.Wqkv.weight"))
                          /\ get(state_dict, replace(k, "attn.in_proj_weight", "attn.Wqkv.weight"))
                                = get(state_dict0, k)
                   /\ contains(k, "attn.in_proj_bias") =>
                          /\ ~has(state_dict, k)
                          /\ has(state_dict, replace(k, "attn.in_proj_bias", "attn.Wqkv.bias"))
                          /\ get(state_dict, replace(k, "attn.in_proj_bias", "attn.Wqkv.bias"))
                                = get(state_dict0, k)
                   /\ k \notin RewrittenKeys(state_dict0) =>
                          has(state_dict, k) /\ get(state_dict, k) = get(state_dict0, k)
            /\ Cardinality(KeySet(state_dict)) =
                   Len(state_dict0) - 4 * Cardinality(LeadingLayers(state_dict0))

\* A mapping with a vision block, other parameters and the text layers 0 and
\* 2 has been converted: layer 0 is fused, layer 2, beyond the gap, is not.
C17_Witness ==
    /\ nconv = 1 /\ SeparateKeys(state_dict0) /\ conv_exc = ""
    /\ has(state_dict0, "visual.transformer.resblocks.0.attn.in_proj_weight")
    /\ has(state_dict0, "logit_scale")
    /\ LeadingLayers(state_dict0) = {0}
    /\ has(state_dict, LayerKey("", 0, "attention.self.Wqkv.weight"))
    /\ has(state_dict, LayerKey("", 2, "attention.self.query.weight"))

(***************************************************************************)
(* Properties of resize_pos_embed.                                         *)
(***************************************************************************)
HasGridSize == visual_kind = "VisualTransformer"

\* The stored table of a mapping and the number of its rows.
StoredRows(d) == get(d, PosKey).shape[1]

TargetRows == grid * grid + 1

\* The inputs on which resize_pos_embed has nothing to do.
NothingToResize(d) == ~has(d, PosKey) \/ ~HasGridSize \/ StoredRows(d) = TargetRows

\* C11: resize_pos_embed leaves the mapping exactly as it was, and raises
\* nothing, when the stored table already has grid_size[0]*grid_size[1]+1
\* rows, when the mapping has no "visual.positional_embedding" key, and when
\* the model's visual has no grid_size.
C11_ResizeLeavesMappingUnchanged ==
    (nconv >= 1 /\ NothingToResize(state_dict0)) => (state_dict = state_dict0 /\ conv_exc = "")

\* resize_pos_embed has run on a mapping whose table matches a 2x2 grid.
C11_Witness ==
    /\ nconv = 1 /\ HasGridSize /\ grid = 2
    /\ has(state_dict0, PosKey) /\ StoredRows(state_dict0) = 5
    /\ Len(state_dict0) > 1

IsSquare(n) == \E g \in 0..n : g * g = n

StoredWidth(d) == get(d, PosKey).shape[2]

\* Every key but the table's is where it was and holds what it held.
OtherKeysKept(d0, d) ==
    /\ keys(d) = keys(d0)
    /\ \A i \in DOMAIN d0 : d0[i].k # PosKey => d[i] = d0[i]

\* C12: a stored table of g*g+1 rows, g >= 1, resized for a target grid
\* (G, G) with G # g, is replaced by a table of exactly G*G+1 rows of the same
\* width whose first row is the original class-token row and whose other
\* G*G rows are the interpolated grid; no other key of the mapping changes.
C12_ResizeSquareTable ==
    (/\ nconv >= 1 /\ HasGridSize /\ has(state_dict0, PosKey)
     /\ StoredRows(state_dict0) >= 2
     /\ IsSquare(StoredRows(state_dict0) - 1)
     /\ StoredRows(state_dict0) # TargetRows)
    => (/\ conv_exc = ""
        /\ OtherKeysKept(state_dict0, state_dict)
        /\ get(state_dict, PosKey).shape = <<TargetRows, StoredWidth(state_dict0)>>
        /\ Len(get(state_dict, PosKey).data) = TargetRows
        /\ get(state_dict, PosKey).data[1] = get(state_dict0, PosKey).data[1]
        /\ Tail(get(state_dict, PosKey).data) = Rows("bicubic(" \o PosKey \o ")", grid * grid))

\* A table for a 1x1 grid has been resized for a 2x2 grid, among other keys.
C12_Witness ==
    /\ nconv = 1 /\ HasGridSize /\ grid = 2
    /\ has(state_dict0, PosKey) /\ StoredRows(state_dict0) = 2
    /\ StoredRows(state_dict) = 5
    /\ Len(state_dict0) > 1

\* C13: a stored table whose grid portion (rows - 1) is not a perfect square
\* and whose row count is not the target's makes resize_pos_embed fail with a
\* shape error, whatever the width, and the mapping keeps the stored table.
C13_ResizeNonSquareFails ==
    (/\ nconv >= 1 /\ HasGridSize /\ has(state_dict0, PosKey)
     /\ ~IsSquare(StoredRows(state_dict0) - 1)
     /\ StoredRows(state_dict0) # TargetRows)
    => (conv_exc = "RuntimeError" /\ state_dict = state_dict0)

\* The resize of a table of 1+6 rows of width 2 has failed: the 12 elements
\* reshape to a 2x2 grid of 3 channels, which the class-token row cannot join.
C13_Witness ==
    /\ nconv = 1 /\ HasGridSize
    /\ has(state_dict0, PosKey) /\ StoredRows(state_dict0) = 7 /\ StoredWidth(state_dict0) = 2
    /\ conv_exc = "RuntimeError"

(***************************************************************************)
(* Properties of the token masking.                                        *)
(***************************************************************************)
\* out is row masked at ratio r: the class token first, then the expected
\* number of pairwise distinct patch tokens of the same row, and nothing else.
MaskedRow(row, out, r) ==
    /\ Len(out) = 1 + ((Len(row) - 1) * (100 - r)) \div 100
    /\ out[1] = row[1]
    /\ \A j \in 2..Len(out) : \E i \in 2..Len(row) : out[j] = row[i]
    /\ \A j, k \in 2..Len(out) : j # k => out[j] # out[k]

MaskedBatch(x, out, r) ==
    /\ Len(out) = Len(x)
    /\ \A n \in DOMAIN x : MaskedRow(x[n], out[n], r)

\* C14: random_masking returns for every row of the batch a sequence of
\* 1 + floor((L-1)*(1-r)) tokens: that row's class token first, then pairwise
\* distinct patch tokens of that row from indices 1..L-1, the dropped tokens
\* being absent.  VisualTransformer.forward masks only when mask_ratio is not
\* 0 and otherwise hands on the full sequence.
C14_RandomMaskingKeepsClassToken ==
    /\ seq_op = "random_masking" => MaskedBatch(seq_in, seq_out, seq_ratio)
    /\ seq_op = "forward" =>
           IF seq_ratio = 0 THEN seq_out = seq_in
           ELSE MaskedBatch(seq_in, seq_out, seq_ratio)

\* Two rows of 1+3 tokens masked at one half keep different patches: the
\* first row its last patch, the second row its first.
C14_Witness ==
    /\ seq_op = "random_masking" /\ seq_ratio = 50
    /\ Len(seq_in) = 2 /\ Len(seq_in[1]) = 4
    /\ seq_out[1] = <<seq_in[1][1], seq_in[1][4]>>
    /\ seq_out[2] = <<seq_in[2][1], seq_in[2][2]>>

(***************************************************************************)
(* Properties of the precision conversions.                                *)
(***************************************************************************)
\* The precision the last conversion is to leave the model in.
TargetPrecision == IF Last(steps) = "convert_weights" THEN "float16" ELSE "float32"

\* C15: after convert_weights every parameter and every present gradient of
\* the model is half precision, after convert_models_to_fp32 every parameter
\* and every present gradient is full precision; the conversion completes and
\* skips none of them.
C15_PrecisionUniform ==
    steps # <<>> =>
        /\ restore_exc = ""
        /\ \A i \in DOMAIN model.params :
               /\ model.params[i].dtype = TargetPrecision
               /\ model.params[i].grad # "None" => model.params[i].grad_dtype = TargetPrecision

====
